---- MODULE Spec2Model ----
(***************************************************************************)
(* A model of the sayhello tool package: the greeting generator            *)
(* (src/src/sayhello/main.py), its command line (src/src/sayhello/cli.py), *)
(* the MacroFlow wrapper sayhello_tool (src/macroflow_tool.py), the         *)
(* langchain tool sayhello (src/sayhello.py) and the batch wrapper the      *)
(* package exports (src/__init__.py).                                       *)
(*                                                                         *)
(* A Python str is a sequence of one-character strings.  Characters         *)
(* outside ASCII are written by code point: "U+4F60" is one character.      *)
(* A Python value that may or may not be a str is a record [t, s, n]:       *)
(* t is "str", "none" or "int", s the characters of a str, n the number of  *)
(* an int.  A dict is a function from its keys to its values.               *)
(***************************************************************************)
EXTENDS Integers, Sequences, FiniteSets, TLC

VARIABLES
    op,      \* the operation that ran last
    args,    \* the arguments it was called with
    ret,     \* the value it returned (NoRet when it raised)
    exc,     \* the exception that left it ("none" when it returned)
    cmds,    \* the external command lines it started, in order
    locals   \* sayhello_tool's locals name and language when it ended

vars == <<op, args, ret, exc, cmds, locals>>

----------------------------------------------------------------------------
(* Bounds of the model. *)

\* longest name drawn over NameAlphabet
MaxLen == 2
\* most arguments in the keyword bag of one tool call
MaxArgs == 3
\* longest sequence of names in one batch call
MaxBatch == 3
\* longest duration, in clock ticks, between entry and return of a call
MaxElapsed == 1

----------------------------------------------------------------------------
(* Strings. *)

RECURSIVE StringsUpTo(_, _)
StringsUpTo(alphabet, n) ==
    IF n = 0 THEN {<<>>}
    ELSE LET shorter == StringsUpTo(alphabet, n - 1)
         IN  shorter \cup {Append(s, c) : s \in shorter, c \in alphabet}

\* str.isspace() of one character
Whitespace == {" ", "\t", "\n"}

\* str.strip(): the string without its leading and trailing whitespace
RECURSIVE LStrip(_)
LStrip(s) ==
    IF s # <<>> /\ Head(s) \in Whitespace THEN LStrip(Tail(s)) ELSE s

RECURSIVE RStrip(_)
RStrip(s) ==
    IF s # <<>> /\ s[Len(s)] \in Whitespace
    THEN RStrip(SubSeq(s, 1, Len(s) - 1))
    ELSE s

Strip(s) == RStrip(LStrip(s))

UpperLetters ==
    <<"A", "B", "C", "D", "E", "F", "G", "H", "I", "J", "K", "L", "M",
      "N", "O", "P", "Q", "R", "S", "T", "U", "V", "W", "X", "Y", "Z">>

LowerLetters ==
    <<"a", "b", "c", "d", "e", "f", "g", "h", "i", "j", "k", "l", "m",
      "n", "o", "p", "q", "r", "s", "t", "u", "v", "w", "x", "y", "z">>

LowerChar(c) ==
    IF \E i \in 1..Len(UpperLetters) : UpperLetters[i] = c
    THEN LowerLetters[CHOOSE i \in 1..Len(UpperLetters) : UpperLetters[i] = c]
    ELSE c

\* str.lower()
Lower(s) == [i \in 1..Len(s) |-> LowerChar(s[i])]

\* `sub in s` of two strs
Contains(s, sub) ==
    \E i \in 0..(Len(s) - Len(sub)) : SubSeq(s, i + 1, i + Len(sub)) = sub

\* sep.join(words)
RECURSIVE Join(_, _)
Join(words, sep) ==
    IF words = <<>> THEN <<>>
    ELSE IF Len(words) = 1 THEN words[1]
    ELSE words[1] \o sep \o Join(Tail(words), sep)

\* the decimal digits of a natural number, and back
RECURSIVE Digits(_)
Digits(n) ==
    LET d == <<"0", "1", "2", "3", "4", "5", "6", "7", "8", "9">>[(n % 10) + 1]
    IN  IF n < 10 THEN <<d>> ELSE Append(Digits(n \div 10), d)

DigitValue(c) ==
    CHOOSE v \in 0..9 : <<"0", "1", "2", "3", "4", "5", "6", "7", "8", "9">>[v + 1] = c

RECURSIVE Number(_)
Number(s) ==
    IF Len(s) = 1 THEN DigitValue(s[1])
    ELSE 10 * Number(SubSeq(s, 1, Len(s) - 1)) + DigitValue(s[Len(s)])

----------------------------------------------------------------------------
(* Python values. *)

StrVal(s) == [t |-> "str", s |-> s, n |-> 0]
NoneVal == [t |-> "none", s |-> <<>>, n |-> 0]
IntVal(n) == [t |-> "int", s |-> <<>>, n |-> n]

IsStr(v) == v.t = "str"

\* bool(v): None, 0 and "" are false
Truthy(v) ==
    CASE v.t = "none" -> FALSE
      [] v.t = "int" -> v.n # 0
      [] OTHER -> v.s # <<>>

\* a dict with the key k set to v
Put(d, k, v) == [x \in DOMAIN d \cup {k} |-> IF x = k THEN v ELSE d[x]]

EmptyDict == [x \in {} |-> 0]

NoRet == [x \in {"noreturn"} |-> TRUE]

----------------------------------------------------------------------------
(* The language codes and the literal strings of the code. *)

en == <<"e", "n">>
zh == <<"z", "h">>
es == <<"e", "s">>
fr == <<"f", "r">>

\* supported_languages, and the choices of --language
supported_languages == {en, zh, es, fr}

----------------------------------------------------------------------------
(* The greeting generator: src/src/sayhello/main.py. *)

Hello == <<"h", "e", "l", "l", "o", " ">>
NiHao == <<"U+4F60", "U+597D", " ">>
Hola == <<"U+00A1", "h", "o", "l", "a", " ">>
Bonjour == <<"b", "o", "n", "j", "o", "u", "r", " ">>
Bang == <<"!">>
FullwidthBang == <<"U+FF01">>

NameCannotBeEmpty ==
    <<"N", "a", "m", "e", " ", "c", "a", "n", "n", "o", "t", " ",
      "b", "e", " ", "e", "m", "p", "t", "y">>

\* the outcome of sayhello(name): the greeting, or the ValueError raised
sayhello(name) ==
    IF name = <<>> \/ Strip(name) = <<>>
    THEN [exc |-> "ValueError", msg |-> NameCannotBeEmpty, value |-> <<>>]
    ELSE [exc |-> "none", msg |-> <<>>, value |-> Hello \o name \o Bang]

\* greetings with the zh entry closed by the ASCII "!"
greetingsAsciiBang(name) ==
    [l \in supported_languages |->
        CASE l = en -> Hello \o name \o Bang
          [] l = zh -> NiHao \o name \o Bang
          [] l = es -> Hola \o name \o Bang
          [] l = fr -> Bonjour \o name \o Bang]

\* the dict greetings of sayhello_advanced
greetings(name) ==
    [l \in supported_languages |->
        CASE l = en -> Hello \o name \o Bang
          [] l = zh -> NiHao \o name \o FullwidthBang
          [] l = es -> Hola \o name \o Bang
          [] l = fr -> Bonjour \o name \o Bang]

\* greetings.get(language) with the first entry of another language as default
GreetingForFallbackZh(name, language) ==
    IF language \in DOMAIN greetings(name)
    THEN greetings(name)[language]
    ELSE greetings(name)[zh]

\* greetings.get(language, greetings["en"])
GreetingFor(name, language) ==
    IF language \in DOMAIN greetings(name)
    THEN greetings(name)[language]
    ELSE greetings(name)[en]

sayhello_advanced(name, language) ==
    LET greeting == GreetingFor(name, language)
    IN  [greeting |-> greeting,
         language |-> language,
         name |-> name,
         length |-> Len(greeting)]

----------------------------------------------------------------------------
(* JSON, as json.dumps(..., ensure_ascii=False) writes it and json.loads   *)
(* reads it.  A document is the sequence of its members, each a key and    *)
(* the characters of its encoded value: a string is quoted with " and \    *)
(* escaped, a bool is true or false, a number its decimal digits.          *)

Quote == "\""
Backslash == "\\"

RECURSIVE JsonEscape(_)
JsonEscape(s) ==
    IF s = <<>> THEN <<>>
    ELSE LET c == Head(s)
         IN  (CASE c = Quote -> <<Backslash, Quote>>
                [] c = Backslash -> <<Backslash, Backslash>>
                [] c = "\n" -> <<Backslash, "n">>
                [] c = "\t" -> <<Backslash, "t">>
                [] OTHER -> <<c>>) \o JsonEscape(Tail(s))

\* the characters of a string literal after its opening quote, read up to
\* the first quote that is not escaped
RECURSIVE JsonUnescape(_)
JsonUnescape(s) ==
    IF s = <<>> \/ Head(s) = Quote THEN <<>>
    ELSE IF Head(s) = Backslash /\ Len(s) >= 2
    THEN <<(CASE s[2] = "n" -> "\n"
              [] s[2] = "t" -> "\t"
              [] OTHER -> s[2])>> \o JsonUnescape(Tail(Tail(s)))
    ELSE <<Head(s)>> \o JsonUnescape(Tail(s))

JsonString(s) == <<Quote>> \o JsonEscape(s) \o <<Quote>>
JsonBool(b) == IF b THEN <<"t", "r", "u", "e">> ELSE <<"f", "a", "l", "s", "e">>
JsonNumber(n) == Digits(n)

\* the value an encoded member decodes to
JsonDecode(v) ==
    CASE Head(v) = Quote -> JsonUnescape(Tail(v))
      [] v = JsonBool(TRUE) -> TRUE
      [] v = JsonBool(FALSE) -> FALSE
      [] OTHER -> Number(v)

\* json.loads of a document: the dict of its members
JsonLoads(doc) ==
    [k \in {doc[i].k : i \in 1..Len(doc)} |->
        JsonDecode(doc[CHOOSE i \in 1..Len(doc) :
                        /\ doc[i].k = k
                        /\ \A j \in (i + 1)..Len(doc) : doc[j].k # k].v)]

----------------------------------------------------------------------------
(* The command line: src/src/sayhello/cli.py.  What a run writes on its    *)
(* standard output is nothing, one line of text or one JSON document.      *)

NoOutput == [kind |-> "none", text |-> <<>>, doc |-> <<>>]
TextOutput(s) == [kind |-> "text", text |-> s, doc |-> <<>>]
JsonOutput(d) == [kind |-> "json", text |-> <<>>, doc |-> d]

\* the exit code main() returns on a ValueError
ValidationExitCode == 1
\* the exit code main() returns on any other exception
UnexpectedExitCode == 2
\* the exit status of parser.error()
UsageExitCode == 2

\* main() run on `--name name --language language [--json] [--simple]`;
\* write is "ok", or "fails" when print() raises OSError on standard output
main(name, language, json, simple, write) ==
    IF language \notin supported_languages
    THEN [code |-> UsageExitCode, stdout |-> NoOutput, exc |-> "SystemExit"]
    ELSE IF simple
    THEN LET result == sayhello(name)
         IN  IF result.exc = "ValueError"
             THEN IF json
                  THEN IF write = "ok"
                       THEN [code |-> ValidationExitCode,
                             stdout |-> JsonOutput(
                                 <<[k |-> "success", v |-> JsonBool(FALSE)],
                                   [k |-> "error", v |-> JsonString(result.msg)]>>),
                             exc |-> "none"]
                       ELSE [code |-> -1, stdout |-> NoOutput, exc |-> "OSError"]
                  ELSE [code |-> ValidationExitCode, stdout |-> NoOutput,
                        exc |-> "none"]
             ELSE IF write = "ok"
             THEN [code |-> 0,
                   stdout |-> IF json
                              THEN JsonOutput(
                                  <<[k |-> "success", v |-> JsonBool(TRUE)],
                                    [k |-> "greeting", v |-> JsonString(result.value)],
                                    [k |-> "name", v |-> JsonString(name)]>>)
                              ELSE TextOutput(result.value),
                   exc |-> "none"]
             ELSE IF json
             THEN [code |-> -1, stdout |-> NoOutput, exc |-> "OSError"]
             ELSE [code |-> UnexpectedExitCode, stdout |-> NoOutput, exc |-> "none"]
    ELSE LET result == sayhello_advanced(name, language)
         IN  IF write = "ok"
             THEN [code |-> 0,
                   stdout |-> IF json
                              THEN JsonOutput(
                                  <<[k |-> "success", v |-> JsonBool(TRUE)],
                                    [k |-> "greeting", v |-> JsonString(result.greeting)],
                                    [k |-> "language", v |-> JsonString(result.language)],
                                    [k |-> "name", v |-> JsonString(result.name)],
                                    [k |-> "message_length",
                                     v |-> JsonNumber(result.length)]>>)
                              ELSE TextOutput(result.greeting),
                   exc |-> "none"]
             ELSE IF json
             THEN [code |-> -1, stdout |-> NoOutput, exc |-> "OSError"]
             ELSE [code |-> UnexpectedExitCode, stdout |-> NoOutput, exc |-> "none"]

----------------------------------------------------------------------------
(* The external command.  run_command (macroflow_tool.py) and              *)
(* _run_sayhello_command (sayhello.py) start `uv run sayhello ...` once    *)
(* and hand back a dict, or raise.  What the process does is the           *)
(* environment's choice among CommandOutcomes.                             *)

NotFoundText == <<"n", "o", "t", " ", "f", "o", "u", "n", "d">>
NotFoundError ==
    <<"C", "o", "m", "m", "a", "n", "d", " ">> \o NotFoundText
TimedOutError ==
    <<"C", "o", "m", "m", "a", "n", "d", " ", "t", "i", "m", "e", "d", " ",
      "o", "u", "t">>
TimedOutStderr ==
    <<"C", "o", "m", "m", "a", "n", "d", " ", "e", "x", "e", "c", "u", "t", "i",
      "o", "n", " ", "t", "i", "m", "e", "d", " ", "o", "u", "t">>
NoSuchFileError ==
    <<"N", "o", " ", "s", "u", "c", "h", " ", "f", "i", "l", "e">>

CrashText == <<"T", "r", "a", "c", "e", "b", "a", "c", "k">>

GarbageOutput == TextOutput(<<"o", "k">>)
ListOutput == [kind |-> "jsonlist", text |-> <<>>, doc |-> <<>>]

CommandOutcomes ==
    {"ran", "exit_nonzero", "not_found", "no_such_file", "timeout",
     "garbage", "not_object", "raises"}

\* cmd_result for the command line <<"sayhello", "--name", n, "--language", l,
\* "--json">> under an outcome; raised is TRUE when the runner raised instead
CommandResult(cmd, outcome) ==
    LET run == main(cmd[3], cmd[5], TRUE, FALSE, "ok")
        failed(has, e) == [raised |-> FALSE, success |-> FALSE, has_error |-> has,
                           error |-> e, stdout |-> NoOutput, stderr |-> e]
        passed(o) == [raised |-> FALSE, success |-> TRUE, has_error |-> FALSE,
                      error |-> <<>>, stdout |-> o, stderr |-> <<>>]
    IN  CASE outcome = "ran" ->
                [raised |-> FALSE, success |-> (run.code = 0), has_error |-> FALSE,
                 error |-> <<>>, stdout |-> run.stdout, stderr |-> <<>>]
          [] outcome = "exit_nonzero" -> failed(FALSE, CrashText)
          [] outcome = "not_found" -> failed(TRUE, NotFoundError)
          [] outcome = "no_such_file" -> failed(TRUE, NoSuchFileError)
          [] outcome = "timeout" ->
                [failed(TRUE, TimedOutError) EXCEPT !.stderr = TimedOutStderr]
          [] outcome = "garbage" -> passed(GarbageOutput)
          [] outcome = "not_object" -> passed(ListOutput)
          [] OTHER -> [raised |-> TRUE, success |-> FALSE, has_error |-> FALSE,
                       error |-> <<>>, stdout |-> NoOutput, stderr |-> <<>>]

\* cmd_result.get("error", "")
ErrorOrEmpty(r) == IF r.has_error THEN r.error ELSE <<>>

----------------------------------------------------------------------------
(* sayhello_tool: src/macroflow_tool.py.  An error message is the sequence *)
(* of the fragments it is put together from.                               *)

name_aliases ==
    <<"recipient", "target_person", "person", "user", "username", "target",
      "who", "person_name">>

ZhongWen == <<"U+4E2D", "U+6587">>
YingWen == <<"U+82F1", "U+6587">>
chinese == <<"c", "h", "i", "n", "e", "s", "e">>
english == <<"e", "n", "g", "l", "i", "s", "h">>
spanish == <<"s", "p", "a", "n", "i", "s", "h">>
french == <<"f", "r", "e", "n", "c", "h">>

language_mapping ==
    [l \in {ZhongWen, YingWen, chinese, english, spanish, french} |->
        CASE l = ZhongWen -> zh
          [] l = YingWen -> en
          [] l = chinese -> zh
          [] l = english -> en
          [] l = spanish -> es
          [] l = french -> fr]

EmptyNameMessage == <<"U+53C2U+6570 'name' U+4E0DU+80FDU+4E3AU+7A7A">>
CommandFailedMessage == <<"SayHello command failed">>
NotInstalledMessage ==
    <<"SayHello not installed. Run 'make prepare-sayhello' to set it up.">>
ParseFailedMessage == <<"Failed to parse command output">>
ExecutionFailedMessage(e) == <<"U+6267U+884CU+5931U+8D25: ", e>>

uv_run == <<<<"u", "v">>, <<"r", "u", "n">>>>

\* the list cmd
CommandLine(name, language) ==
    <<<<"s", "a", "y", "h", "e", "l", "l", "o">>,
      <<"-", "-", "n", "a", "m", "e">>, name,
      <<"-", "-", "l", "a", "n", "g", "u", "a", "g", "e">>, language,
      <<"-", "-", "j", "s", "o", "n">>>>

\* " ".join(["uv", "run"] + cmd)
CommandText(cmd) == Join(uv_run \o cmd, <<" ">>)

\* the parameter a keyword bag binds, or its default
Param(bag, key, default) == IF key \in DOMAIN bag THEN bag[key] ELSE default

\* lines 211-227: the name after the alias scan
ScanTriggered(name) == name.t = "none"

\* the alias scan without its break: the last alias present wins
ResolveNameLastWins(name, kwargs) ==
    IF ScanTriggered(name) /\ \E i \in 1..Len(name_aliases) : name_aliases[i] \in DOMAIN kwargs
    THEN kwargs[name_aliases[CHOOSE i \in 1..Len(name_aliases) :
                    /\ name_aliases[i] \in DOMAIN kwargs
                    /\ \A j \in (i + 1)..Len(name_aliases) :
                          name_aliases[j] \notin DOMAIN kwargs]]
    ELSE name

ResolveName(name, kwargs) ==
    IF ScanTriggered(name) /\ \E i \in 1..Len(name_aliases) : name_aliases[i] \in DOMAIN kwargs
    THEN kwargs[name_aliases[CHOOSE i \in 1..Len(name_aliases) :
                    /\ name_aliases[i] \in DOMAIN kwargs
                    /\ \A j \in 1..(i - 1) : name_aliases[j] \notin DOMAIN kwargs]]
    ELSE name

\* lines 229-232: the language after the alias
ResolveLanguage(language, kwargs) ==
    IF "greeting_language" \in DOMAIN kwargs
    THEN kwargs["greeting_language"]
    ELSE language

\* lines 243-246: the language after the label mapping (of a str)
MapLanguage(language) ==
    IF Lower(language) \in DOMAIN language_mapping
    THEN language_mapping[Lower(language)]
    ELSE language

\* lines 258-261
DefaultLanguage(language) ==
    IF language \in supported_languages THEN language ELSE en

\* lines 277-289: the envelope of a command that did not succeed
CommandFailedEnvelope(cmd, r) ==
    [success |-> FALSE,
     error |-> IF Contains(ErrorOrEmpty(r), NotFoundText)
               THEN NotInstalledMessage
               ELSE CommandFailedMessage,
     command |-> CommandText(cmd),
     stdout |-> r.stdout,
     stderr |-> r.stderr]

\* the envelope of a command that succeeded, without the fields added to it
ParsedEnvelopeAsParsed(cmd, r, elapsed) ==
    CASE r.stdout.kind = "json" -> [ret |-> JsonLoads(r.stdout.doc), exc |-> "none"]
      [] r.stdout.kind = "jsonlist" ->
            [ret |-> [success |-> FALSE, error |-> ExecutionFailedMessage("TypeError")],
             exc |-> "none"]
      [] OTHER ->
            [ret |-> [success |-> FALSE, error |-> ParseFailedMessage,
                      stdout |-> r.stdout, stderr |-> r.stderr],
             exc |-> "none"]

\* lines 291-311: the envelope of a command that succeeded
ParsedEnvelope(cmd, r, elapsed) ==
    CASE r.stdout.kind = "json" ->
            [ret |-> Put(Put(JsonLoads(r.stdout.doc), "processing_time", elapsed),
                         "command", CommandText(cmd)),
             exc |-> "none"]
      [] r.stdout.kind = "jsonlist" ->
            [ret |-> [success |-> FALSE, error |-> ExecutionFailedMessage("TypeError")],
             exc |-> "none"]
      [] OTHER ->
            [ret |-> [success |-> FALSE, error |-> ParseFailedMessage,
                      stdout |-> r.stdout, stderr |-> r.stderr],
             exc |-> "none"]

\* lines 263-318: the try block
RunTool(name, language, outcome, elapsed) ==
    LET cmd == CommandLine(name, language)
        r == CommandResult(cmd, outcome)
    IN  IF r.raised
        THEN [ret |-> [success |-> FALSE, error |-> ExecutionFailedMessage("Exception")],
              exc |-> "none"]
        ELSE IF ~ r.success
        THEN [ret |-> CommandFailedEnvelope(cmd, r), exc |-> "none"]
        ELSE ParsedEnvelope(cmd, r, elapsed)

EmptyNameEnvelope == [success |-> FALSE, error |-> EmptyNameMessage]

\* sayhello_tool(**bag): what it returns or raises, the command lines it starts,
\* and its locals name and language when it ends
sayhello_tool(bag, outcome, elapsed) ==
    LET kwargs == [k \in DOMAIN bag \ {"name", "language"} |-> bag[k]]
        name == ResolveName(Param(bag, "name", NoneVal), kwargs)
        language1 == ResolveLanguage(Param(bag, "language", StrVal(en)), kwargs)
        raise(e, l) == [ret |-> NoRet, exc |-> e, cmds |-> <<>>,
                        locals |-> [name |-> name, language |-> l]]
    IN  IF ~ IsStr(language1)
        THEN raise("AttributeError", language1)
        ELSE LET language2 == StrVal(MapLanguage(language1.s))
             IN  IF ~ Truthy(name)
                 THEN [ret |-> EmptyNameEnvelope, exc |-> "none", cmds |-> <<>>,
                       locals |-> [name |-> name, language |-> language2]]
                 ELSE IF ~ IsStr(name)
                 THEN raise("AttributeError", language2)
                 ELSE IF Strip(name.s) = <<>>
                 THEN [ret |-> EmptyNameEnvelope, exc |-> "none", cmds |-> <<>>,
                       locals |-> [name |-> name, language |-> language2]]
                 ELSE LET language3 == DefaultLanguage(language2.s)
                          done == RunTool(name.s, language3, outcome, elapsed)
                      IN  [ret |-> done.ret, exc |-> done.exc,
                           cmds |-> <<CommandLine(name.s, language3)>>,
                           locals |-> [name |-> name, language |-> StrVal(language3)]]

----------------------------------------------------------------------------
(* The langchain tool sayhello: src/sayhello.py.  Its args_schema makes    *)
(* name and language strs.  _run_sayhello_command never raises and sets    *)
(* "error" to "Command timed out" or to the text of the exception          *)
(* subprocess.run raised.                                                  *)

LangchainOutcomes ==
    {"ran", "exit_nonzero", "no_such_file", "timeout", "garbage", "not_object"}

LangchainNotInstalledMessage ==
    <<"SayHello not installed. Run 'make install-sayhello' to set it up.">>

\* lines 81-92
LangchainFailedEnvelope(cmd, r) ==
    [success |-> FALSE,
     error |-> IF Contains(ErrorOrEmpty(r), NotFoundText)
               THEN LangchainNotInstalledMessage
               ELSE CommandFailedMessage,
     command |-> CommandText(cmd),
     stdout |-> r.stdout,
     stderr |-> r.stderr]

\* sayhello(name, language) of src/sayhello.py
sayhello_langchain(name, language, outcome, elapsed) ==
    IF name = <<>> \/ Strip(name) = <<>>
    THEN [ret |-> EmptyNameEnvelope, exc |-> "none", cmds |-> <<>>]
    ELSE LET lang == DefaultLanguage(language)
             cmd == CommandLine(name, lang)
             r == CommandResult(cmd, outcome)
         IN  [ret |->
                 IF ~ r.success
                 THEN LangchainFailedEnvelope(cmd, r)
                 ELSE CASE r.stdout.kind = "json" ->
                             Put(Put(JsonLoads(r.stdout.doc), "processing_time", elapsed),
                                 "command", CommandText(cmd))
                        [] r.stdout.kind = "jsonlist" ->
                             [success |-> FALSE,
                              error |-> ExecutionFailedMessage("TypeError")]
                        [] OTHER ->
                             [success |-> FALSE,
                              error |-> ExecutionFailedMessage("JSONDecodeError")],
              exc |-> "none",
              cmds |-> <<cmd>>]

----------------------------------------------------------------------------
(* sayhello_batch_tool, which the package exports (src/__init__.py) and    *)
(* src/macroflow_tool.py does not hold: modelled from section 4.4 of the   *)
(* specification.  Every name goes through sayhello_tool in input order;   *)
(* a success adds {name, greeting} to results, a failure {name, error}     *)
(* to failed_items.                                                        *)

\* one name through sayhello_tool; the call's arguments are bound once
BatchItem(name, language, outcome) ==
    CHOOSE item \in {sayhello_tool(bag, o, 0) :
                        bag \in {("name" :> StrVal(name)) @@ ("language" :> StrVal(language))},
                        o \in {outcome}} : TRUE

\* one turn of the loop over names
BatchStep(acc, name, language, outcome) ==
    CHOOSE next \in
        {IF item.ret.success
         THEN [a EXCEPT
                  !.results = Append(@, [name |-> n, greeting |-> item.ret.greeting]),
                  !.successful = @ + 1,
                  !.cmds = @ \o item.cmds]
         ELSE [a EXCEPT
                  !.failed_items = Append(@, [name |-> n, error |-> item.ret.error]),
                  !.failed = @ + 1,
                  !.cmds = @ \o item.cmds] :
            a \in {acc}, n \in {name}, item \in {BatchItem(name, language, outcome)}} : TRUE

\* the loop leaving at the first name that fails
RECURSIVE BatchLoopStopsAtFailure(_, _, _, _)
BatchLoopStopsAtFailure(acc, names, language, outcomes) ==
    IF names = <<>> THEN acc
    ELSE CHOOSE out \in
           {IF next.failed > a.failed THEN next
            ELSE BatchLoopStopsAtFailure(next, Tail(ns), l, Tail(os)) :
               a \in {acc}, ns \in {names}, l \in {language}, os \in {outcomes},
               next \in {BatchStep(acc, Head(names), language, Head(outcomes))}} : TRUE

RECURSIVE BatchLoop(_, _, _, _)
BatchLoop(acc, names, language, outcomes) ==
    IF names = <<>> THEN acc
    ELSE CHOOSE out \in
           {BatchLoop(next, Tail(ns), l, Tail(os)) :
               ns \in {names}, l \in {language}, os \in {outcomes},
               next \in {BatchStep(acc, Head(names), language, Head(outcomes))}} : TRUE

StructuralErrorMessage == <<"names must be a sequence">>

ListVal(items) == [t |-> "list", items |-> items]

\* names is ListVal of a sequence of strs, or NoneVal when the caller gave none
sayhello_batch_tool(names, language, outcomes, elapsed) ==
    IF names.t # "list"
    THEN [ret |-> [success |-> FALSE, error |-> StructuralErrorMessage],
          exc |-> "none", cmds |-> <<>>]
    ELSE CHOOSE out \in
           {[ret |-> [success |-> TRUE,
                      total |-> Len(names.items),
                      successful |-> acc.successful,
                      failed |-> acc.failed,
                      results |-> acc.results,
                      failed_items |-> acc.failed_items,
                      processing_time |-> elapsed],
             exc |-> "none",
             cmds |-> acc.cmds] :
               acc \in {BatchLoop([results |-> <<>>, failed_items |-> <<>>,
                                   successful |-> 0, failed |-> 0, cmds |-> <<>>],
                                  names.items, language, outcomes)}} : TRUE

----------------------------------------------------------------------------
(* The inputs the model draws. *)

NameAlphabet == {"A", " "}
Names == StringsUpTo(NameAlphabet, MaxLen) \cup {<<Quote>>, <<"U+5C0F", "U+660E">>}

Alice == <<"A", "l", "i", "c", "e">>
CliNames == Names \cup {Alice}

de == <<"d", "e">>
UpperZH == <<"Z", "H">>
Chinese == <<"C", "h", "i", "n", "e", "s", "e">>
Languages == supported_languages \cup {de, UpperZH, Chinese, ZhongWen}

\* the values a keyword bag binds: an absent name is None and an absent
\* language "en" (the defaults of the parameters)
ToolNames == {<<>>, <<" ">>, <<"A">>, <<Quote>>}
ToolLanguages == supported_languages \cup {de, Chinese}
NameValues == {StrVal(s) : s \in ToolNames} \cup {IntVal(5)}
LanguageValues == {StrVal(s) : s \in ToolLanguages} \cup {NoneVal}
AliasValues == {StrVal(<<"B">>), StrVal(<<>>)}
LanguageAliasValues == {StrVal(french), NoneVal}

AliasKeys == {name_aliases[i] : i \in 1..Len(name_aliases)}
Keys == {"name", "language", "greeting_language"} \cup AliasKeys

ValuesFor(k) ==
    CASE k = "name" -> NameValues
      [] k = "language" -> LanguageValues
      [] k = "greeting_language" -> LanguageAliasValues
      [] OTHER -> AliasValues

\* the keyword bags over the keys K
RECURSIVE BagsOn(_)
BagsOn(K) ==
    IF K = {} THEN {EmptyDict}
    ELSE LET k == CHOOSE x \in K : TRUE
         IN  {Put(f, k, v) : f \in BagsOn(K \ {k}), v \in ValuesFor(k)}

KeySets == {K \in SUBSET Keys : Cardinality(K) <= MaxArgs}

BatchNames == {<<"A">>, <<"B">>, <<>>}
BatchCommandOutcomes == {"ran", "exit_nonzero", "garbage"}
BatchLanguages == {en, zh, de}

RECURSIVE SeqsUpTo(_, _)
SeqsUpTo(S, n) ==
    IF n = 0 THEN {<<>>}
    ELSE LET shorter == SeqsUpTo(S, n - 1)
         IN  shorter \cup {Append(q, x) : q \in shorter, x \in S}

----------------------------------------------------------------------------
(* The state machine: one action per operation, each a whole call.  The   *)
(* operations keep no state from one call to the next, so a behaviour is   *)
(* one call made from the initial state.                                   *)

Init ==
    /\ op = "init"
    /\ args = EmptyDict
    /\ ret = NoRet
    /\ exc = "none"
    /\ cmds = <<>>
    /\ locals = EmptyDict

CallSimple ==
    /\ op = "init"
    /\ \E name \in Names :
           LET r == sayhello(name)
           IN  /\ op' = "sayhello"
               /\ args' = [name |-> name]
               /\ ret' = IF r.exc = "none" THEN [value |-> r.value] ELSE NoRet
               /\ exc' = r.exc
               /\ UNCHANGED <<cmds, locals>>

CallAdvanced ==
    /\ op = "init"
    /\ \E name \in Names, language \in Languages :
           /\ op' = "sayhello_advanced"
           /\ args' = [name |-> name, language |-> language]
           /\ ret' = sayhello_advanced(name, language)
           /\ exc' = "none"
           /\ UNCHANGED <<cmds, locals>>

CallMain ==
    /\ op = "init"
    /\ \E name \in CliNames, language \in supported_languages \cup {de},
          json \in BOOLEAN, simple \in BOOLEAN, write \in {"ok", "fails"} :
           LET r == main(name, language, json, simple, write)
           IN  /\ op' = "main"
               /\ args' = [name |-> name, language |-> language, json |-> json,
                           simple |-> simple, write |-> write]
               /\ ret' = IF r.exc = "none"
                         THEN [code |-> r.code, stdout |-> r.stdout]
                         ELSE NoRet
               /\ exc' = r.exc
               /\ UNCHANGED <<cmds, locals>>

\* the outcome is drawn only for a call that starts the command, the duration
\* only for a call that measures it
OutcomesOf(started, outcomes) == IF started THEN outcomes ELSE {"not_started"}
DurationsOf(r) ==
    IF r.exc = "none" /\ "processing_time" \in DOMAIN r.ret
    THEN 0..MaxElapsed
    ELSE {0}

CallTool ==
    /\ op = "init"
    /\ \E K \in KeySets :
         \E bag \in BagsOn(K) :
           \E outcome \in OutcomesOf(sayhello_tool(bag, "ran", 0).cmds # <<>>,
                                     CommandOutcomes) :
             \E r0 \in {sayhello_tool(bag, outcome, 0)} :
               \E elapsed \in DurationsOf(r0) :
                 \E r \in {IF elapsed = 0 THEN r0
                            ELSE sayhello_tool(bag, outcome, elapsed)} :
                   /\ op' = "sayhello_tool"
                   /\ args' = [bag |-> bag, outcome |-> outcome, elapsed |-> elapsed]
                   /\ ret' = r.ret
                   /\ exc' = r.exc
                   /\ cmds' = r.cmds
                   /\ locals' = r.locals

CallLangchain ==
    /\ op = "init"
    /\ \E name \in Names, language \in Languages :
         \E outcome \in OutcomesOf(sayhello_langchain(name, language, "ran", 0).cmds # <<>>,
                                   LangchainOutcomes) :
           \E r0 \in {sayhello_langchain(name, language, outcome, 0)} :
             \E elapsed \in DurationsOf(r0) :
               \E r \in {IF elapsed = 0 THEN r0
                          ELSE sayhello_langchain(name, language, outcome, elapsed)} :
                 /\ op' = "langchain"
                 /\ args' = [name |-> name, language |-> language,
                             outcome |-> outcome, elapsed |-> elapsed]
                 /\ ret' = r.ret
                 /\ exc' = r.exc
                 /\ cmds' = r.cmds
                 /\ UNCHANGED locals

\* the outcomes of the commands a batch starts, one per name
RECURSIVE BatchOutcomes(_, _)
BatchOutcomes(names, language) ==
    IF names = <<>> THEN {<<>>}
    ELSE {<<o>> \o rest :
            o \in OutcomesOf(BatchItem(Head(names), language, "ran").cmds # <<>>,
                             BatchCommandOutcomes),
            rest \in BatchOutcomes(Tail(names), language)}

CallBatch ==
    /\ op = "init"
    /\ \E names \in {ListVal(q) : q \in SeqsUpTo(BatchNames, MaxBatch)} \cup {NoneVal},
          language \in BatchLanguages, elapsed \in 0..MaxElapsed :
         \E outcomes \in (IF names.t = "list"
                          THEN BatchOutcomes(names.items, language)
                          ELSE {<<>>}) :
           \E r \in {sayhello_batch_tool(names, language, outcomes, elapsed)} :
             /\ elapsed # 0 => "processing_time" \in DOMAIN r.ret
             /\ op' = "sayhello_batch_tool"
             /\ args' = [names |-> names, language |-> language,
                         outcomes |-> outcomes, elapsed |-> elapsed]
             /\ ret' = r.ret
             /\ exc' = r.exc
             /\ cmds' = r.cmds
             /\ UNCHANGED locals

Next ==
    \/ CallSimple
    \/ CallAdvanced
    \/ CallMain
    \/ CallTool
    \/ CallLangchain
    \/ CallBatch

Spec == Init /\ [][Next]_vars

----------------------------------------------------------------------------
(* One tool call step by step: the code up to the try block, the one call  *)
(* of _run_sayhello_command, and the return of the envelope.  op is the    *)
(* position of the call, cmds the command lines started so far.            *)

\* macroflow_tool.py lines 208-261: sayhello_tool up to its try block
ToolEntry ==
    /\ op = "init"
    /\ \E K \in KeySets :
         \E bag \in BagsOn(K) :
           \E r \in {sayhello_tool(bag, "ran", 0)} :
             /\ args' = [tool |-> "sayhello_tool", bag |-> bag]
             /\ locals' = r.locals
             /\ cmds' = <<>>
             /\ IF r.cmds = <<>>
                THEN op' = "returned" /\ ret' = r.ret /\ exc' = r.exc
                ELSE op' = "try" /\ ret' = NoRet /\ exc' = "none"

\* sayhello.py lines 52-64: the langchain tool up to its try block
LangchainEntry ==
    /\ op = "init"
    /\ \E name \in Names, language \in Languages :
         \E r \in {sayhello_langchain(name, language, "ran", 0)} :
           /\ args' = [tool |-> "langchain", name |-> name, language |-> language]
           /\ locals' = [name |-> StrVal(name),
                         language |-> StrVal(DefaultLanguage(language))]
           /\ cmds' = <<>>
           /\ exc' = "none"
           /\ IF r.cmds = <<>>
              THEN op' = "returned" /\ ret' = r.ret
              ELSE op' = "try" /\ ret' = NoRet

\* macroflow_tool.py line 275, sayhello.py line 79: the command is started and ends
StartCommand ==
    /\ op = "try"
    /\ \E outcome \in (IF args.tool = "langchain" THEN LangchainOutcomes
                       ELSE CommandOutcomes) :
         /\ op' = "ran"
         /\ args' = Put(args, "outcome", outcome)
         /\ cmds' = Append(cmds, CommandLine(locals.name.s, locals.language.s))
         /\ UNCHANGED <<ret, exc, locals>>

\* the envelope of the command that ended, after elapsed seconds
EnvelopeOf(elapsed) ==
    IF args.tool = "langchain"
    THEN sayhello_langchain(locals.name.s, locals.language.s, args.outcome, elapsed)
    ELSE RunTool(locals.name.s, locals.language.s, args.outcome, elapsed)

\* the return going back to the try block after a command that failed
ReturnEnvelopeRetrying ==
    /\ op = "ran"
    /\ \E r0 \in {EnvelopeOf(0)} :
         IF ~ r0.ret.success /\ Len(cmds) < 2
         THEN op' = "try" /\ UNCHANGED <<args, ret, exc, cmds, locals>>
         ELSE /\ op' = "returned"
              /\ ret' = r0.ret
              /\ exc' = r0.exc
              /\ UNCHANGED <<args, cmds, locals>>

\* macroflow_tool.py lines 277-318, sayhello.py lines 81-107: the envelope is returned
ReturnEnvelope ==
    /\ op = "ran"
    /\ \E r0 \in {EnvelopeOf(0)} :
         \E elapsed \in DurationsOf(r0) :
           \E r \in {IF elapsed = 0 THEN r0 ELSE EnvelopeOf(elapsed)} :
             /\ op' = "returned"
             /\ args' = Put(args, "elapsed", elapsed)
             /\ ret' = r.ret
             /\ exc' = r.exc
             /\ UNCHANGED <<cmds, locals>>

StepNext ==
    \/ ToolEntry
    \/ LangchainEntry
    \/ StartCommand
    \/ ReturnEnvelope

StepSpec == Init /\ [][StepNext]_vars

----------------------------------------------------------------------------
(* The claims. *)

\* the greeting table as the specification states it (section 4.1)
ExpectedGreeting(N, L) ==
    CASE L = <<"e", "n">> -> <<"h", "e", "l", "l", "o", " ">> \o N \o <<"!">>
      [] L = <<"z", "h">> -> <<"U+4F60", "U+597D", " ">> \o N \o <<"U+FF01">>
      [] L = <<"e", "s">> -> <<"U+00A1", "h", "o", "l", "a", " ">> \o N \o <<"!">>
      [] L = <<"f", "r">> -> <<"b", "o", "n", "j", "o", "u", "r", " ">> \o N \o <<"!">>

SupportedCodes == {<<"e", "n">>, <<"z", "h">>, <<"e", "s">>, <<"f", "r">>}

\* C1: for every language code L of en, zh, es, fr and every non-empty name N,
\* sayhello_advanced(N, L) returns the table entry of L with N put in as its
\* greeting, which holds N as a substring, and returns N as name and L as language.
C1_TableEntry ==
    (op = "sayhello_advanced" /\ args.language \in SupportedCodes /\ args.name # <<>>)
        => /\ ret.greeting = ExpectedGreeting(args.name, args.language)
           /\ Contains(ret.greeting, args.name)
           /\ ret.name = args.name
           /\ ret.language = args.language

C1_Witness ==
    /\ op = "sayhello_advanced"
    /\ args.language = <<"z", "h">>
    /\ args.name = <<"U+5C0F", "U+660E">>
    /\ ret.greeting = <<"U+4F60", "U+597D", " ", "U+5C0F", "U+660E", "U+FF01">>

\* C2 as claimed: for every name N and every language L outside en, zh, es, fr,
\* the dict sayhello_advanced(N, L) returns equals the dict it returns for (N, "en")
\* in every field.
C2_SameDictAsEn ==
    (op = "sayhello_advanced" /\ args.language \notin SupportedCodes)
        => ret = sayhello_advanced(args.name, <<"e", "n">>)

\* C2 as amended: for every name N and every language L outside en, zh, es, fr,
\* sayhello_advanced(N, L) has the greeting, the name and the length of the dict
\* returned for (N, "en"), the greeting being "hello N!"; its language field is L
\* as it was passed.
C2_SameGreetingAsEn ==
    (op = "sayhello_advanced" /\ args.language \notin SupportedCodes)
        => /\ ret.greeting = sayhello_advanced(args.name, <<"e", "n">>).greeting
           /\ ret.greeting = <<"h", "e", "l", "l", "o", " ">> \o args.name \o <<"!">>
           /\ ret.length = sayhello_advanced(args.name, <<"e", "n">>).length
           /\ ret.name = sayhello_advanced(args.name, <<"e", "n">>).name
           /\ ret.language = args.language

C2_Witness ==
    /\ op = "sayhello_advanced"
    /\ args.language = <<"d", "e">>
    /\ args.name = <<"A">>
    /\ ret.greeting = <<"h", "e", "l", "l", "o", " ", "A", "!">>
    /\ ret.language = <<"d", "e">>

\* the parameters name and language a keyword bag binds
BoundName(bag) == IF "name" \in DOMAIN bag THEN bag["name"] ELSE NoneVal
BoundLanguage(bag) ==
    IF "language" \in DOMAIN bag THEN bag["language"] ELSE StrVal(<<"e", "n">>)

\* C3: when sayhello_tool is called with a non-empty name N and a language L of
\* en, zh, es, fr, and the command `sayhello --name N --language L --json` runs the
\* command line and exits 0, the envelope returned has success = True, the table
\* entry of (N, L) as greeting, language = L, name = N and a processing_time.
C3_SuccessEnvelope ==
    (/\ op = "sayhello_tool"
     /\ IsStr(BoundName(args.bag)) /\ BoundName(args.bag).s # <<>>
     /\ IsStr(BoundLanguage(args.bag)) /\ BoundLanguage(args.bag).s \in SupportedCodes
     /\ cmds = <<CommandLine(BoundName(args.bag).s, BoundLanguage(args.bag).s)>>
     /\ args.outcome = "ran"
     /\ main(BoundName(args.bag).s, BoundLanguage(args.bag).s, TRUE, FALSE, "ok").code = 0)
        => /\ exc = "none"
           /\ ret.success = TRUE
           /\ ret.greeting = ExpectedGreeting(BoundName(args.bag).s, BoundLanguage(args.bag).s)
           /\ ret.language = BoundLanguage(args.bag).s
           /\ ret.name = BoundName(args.bag).s
           /\ "processing_time" \in DOMAIN ret
           /\ ret.processing_time = args.elapsed

C3_Witness ==
    /\ op = "sayhello_tool"
    /\ args.bag = ("name" :> StrVal(<<Quote>>)) @@ ("language" :> StrVal(<<"z", "h">>))
    /\ args.outcome = "ran"
    /\ args.elapsed = 1
    /\ ret.success = TRUE
    /\ ret.greeting = <<"U+4F60", "U+597D", " ", Quote, "U+FF01">>
    /\ ret.processing_time = 1

\* a name that is missing, empty or only whitespace
BlankName(v) == v.t = "none" \/ (v.t = "str" /\ Strip(v.s) = <<>>)

\* C4: if the name is missing, empty or only whitespace once the aliases are
\* resolved, sayhello_tool and the langchain tool return the failure envelope
\* {success: False, error: <message>} and start no command; the missing name and
\* the whitespace name give the same envelope.
C4_BlankNameEnvelope ==
    /\ (op = "sayhello_tool" /\ BlankName(locals.name))
          => /\ exc = "none"
             /\ ret = [success |-> FALSE,
                       error |-> <<"U+53C2U+6570 'name' U+4E0DU+80FDU+4E3AU+7A7A">>]
             /\ cmds = <<>>
    /\ (op = "langchain" /\ Strip(args.name) = <<>>)
          => /\ exc = "none"
             /\ ret = [success |-> FALSE,
                       error |-> <<"U+53C2U+6570 'name' U+4E0DU+80FDU+4E3AU+7A7A">>]
             /\ cmds = <<>>

\* the name aliases in the order the claim gives
AliasOrder ==
    <<"recipient", "target_person", "person", "user", "username", "target",
      "who", "person_name">>

\* C5: when the canonical name is absent, the name resolved is the value of the
\* first alias, in the order recipient, target_person, person, user, username,
\* target, who, person_name, that the bag holds, whatever later aliases hold; a bag
\* holding only {A: "X"} resolves to the name "X" with the language "en".
C5_FirstAliasWins ==
    (op = "sayhello_tool" /\ "name" \notin DOMAIN args.bag)
        => /\ \A i \in 1..Len(AliasOrder) :
                (/\ AliasOrder[i] \in DOMAIN args.bag
                 /\ \A j \in 1..(i - 1) : AliasOrder[j] \notin DOMAIN args.bag)
                    => locals.name = args.bag[AliasOrder[i]]
           /\ (\A i \in 1..Len(AliasOrder) : AliasOrder[i] \notin DOMAIN args.bag)
                => locals.name = NoneVal
           /\ \A i \in 1..Len(AliasOrder) :
                (DOMAIN args.bag = {AliasOrder[i]} /\ ~ BlankName(args.bag[AliasOrder[i]]))
                    => /\ locals = [name |-> args.bag[AliasOrder[i]],
                                    language |-> StrVal(<<"e", "n">>)]
                       /\ cmds = <<CommandLine(args.bag[AliasOrder[i]].s, <<"e", "n">>)>>

C5_Witness ==
    /\ op = "sayhello_tool"
    /\ args.bag = ("person" :> StrVal(<<"B">>)) @@ ("who" :> StrVal(<<>>))
    /\ locals.name = StrVal(<<"B">>)
    /\ cmds = <<CommandLine(<<"B">>, <<"e", "n">>)>>

\* the labels of the locale-label table
LocaleLabels ==
    {<<"U+4E2D", "U+6587">>, <<"U+82F1", "U+6587">>,
     <<"c", "h", "i", "n", "e", "s", "e">>, <<"e", "n", "g", "l", "i", "s", "h">>,
     <<"s", "p", "a", "n", "i", "s", "h">>, <<"f", "r", "e", "n", "c", "h">>}

\* the language value a bag supplies: greeting_language when it is there
SuppliedLanguage(bag) ==
    IF "greeting_language" \in DOMAIN bag THEN bag["greeting_language"]
    ELSE BoundLanguage(bag)

\* C6: for every language value given to sayhello_tool (or to the langchain tool)
\* with a valid name, the call does not fail because of the language: a command is
\* started whose --language is one of en, zh, es, fr, and it is en whenever the
\* value given is neither a supported code nor a label of the locale-label table.
C6_LanguageNeverFails ==
    /\ (op = "sayhello_tool" /\ IsStr(locals.name) /\ ~ BlankName(locals.name))
          => /\ exc = "none"
             /\ Len(cmds) = 1
             /\ cmds[1][5] \in SupportedCodes
             /\ (~ (/\ IsStr(SuppliedLanguage(args.bag))
                    /\ \/ SuppliedLanguage(args.bag).s \in SupportedCodes
                       \/ Lower(SuppliedLanguage(args.bag).s) \in LocaleLabels))
                   => cmds[1][5] = <<"e", "n">>
    /\ (op = "langchain" /\ Strip(args.name) # <<>>)
          => /\ exc = "none"
             /\ Len(cmds) = 1
             /\ cmds[1][5] \in SupportedCodes
             /\ (args.language \notin SupportedCodes /\ Lower(args.language) \notin LocaleLabels)
                   => cmds[1][5] = <<"e", "n">>

\* C7: sayhello_tool is total: for every keyword bag (a name or a language that is
\* absent, None or no str included) and every outcome of the command, the call
\* returns an envelope with a success field and raises nothing.
C7_Total ==
    op = "sayhello_tool" => (exc = "none" /\ "success" \in DOMAIN ret)

\* C8: every envelope sayhello_tool or the langchain tool returns, on the success
\* path and on every failure path, holds a processing_time, the duration from entry
\* to return.
C8_EveryEnvelopeTimed ==
    (op \in {"sayhello_tool", "langchain"} /\ exc = "none")
        => ("processing_time" \in DOMAIN ret /\ ret.processing_time = args.elapsed)

\* C9: main() returns 1 whenever --name is empty or only whitespace, whatever
\* --language, --json and --simple are; it returns 0 and prints exactly
\* "hello Alice!" for `--name Alice` alone; it returns 2 only for an exception
\* that is no validation error.
C9_ExitCodes ==
    (op = "main" /\ args.language \in SupportedCodes)
        => /\ (Strip(args.name) = <<>> /\ args.write = "ok")
                => (exc = "none" /\ ret.code = 1)
           /\ (/\ args.name = <<"A", "l", "i", "c", "e">>
               /\ args.language = <<"e", "n">>
               /\ ~ args.json /\ ~ args.simple /\ args.write = "ok")
                => /\ exc = "none"
                   /\ ret.code = 0
                   /\ ret.stdout = TextOutput(<<"h", "e", "l", "l", "o", " ",
                                                "A", "l", "i", "c", "e", "!">>)
           /\ (exc = "none" /\ ret.code = 2)
                => (args.write = "fails" /\ sayhello(args.name).exc # "ValueError")

\* the names of a batch whose command ran, and the others, each in input order
NamesWhere(names, outcomes, ran) ==
    LET idx == SelectSeq([i \in 1..Len(names) |-> i],
                         LAMBDA i : (outcomes[i] = "ran") = ran)
    IN  [k \in 1..Len(idx) |-> names[idx[k]]]

\* C10: sayhello_batch_tool(names, language) processes every name in input order,
\* a name that fails goes to failed_items and does not stop the names after it,
\* and the result has total = successful + failed, successful = |results|,
\* failed = |failed_items|, total = |names|; three valid names give success = True,
\* total = 3, successful = 3 and three results.
C10_BatchCounts ==
    (op = "sayhello_batch_tool" /\ args.names.t = "list")
        => LET names == args.names.items
               valid == SelectSeq(names, LAMBDA n : Strip(n) # <<>>)
               lang == IF args.language \in SupportedCodes
                       THEN args.language ELSE <<"e", "n">>
           IN  /\ exc = "none"
               /\ ret.total = ret.successful + ret.failed
               /\ ret.successful = Len(ret.results)
               /\ ret.failed = Len(ret.failed_items)
               /\ ret.total = Len(names)
               /\ [i \in 1..Len(ret.results) |-> ret.results[i].name]
                    = NamesWhere(names, args.outcomes, TRUE)
               /\ [i \in 1..Len(ret.failed_items) |-> ret.failed_items[i].name]
                    = NamesWhere(names, args.outcomes, FALSE)
               /\ cmds = [k \in 1..Len(valid) |-> CommandLine(valid[k], lang)]
               /\ (Len(names) = 3 /\ \A i \in 1..3 : args.outcomes[i] = "ran")
                    => /\ ret.success = TRUE
                       /\ ret.total = 3
                       /\ ret.successful = 3
                       /\ Len(ret.results) = 3

C10_Witness ==
    /\ op = "sayhello_batch_tool"
    /\ args.names = ListVal(<<<<"A">>, <<>>, <<"B">>>>)
    /\ args.outcomes = <<"ran", "not_started", "ran">>
    /\ ret.total = 3 /\ ret.successful = 2 /\ ret.failed = 1
    /\ ret.failed_items[1].name = <<>>
    /\ ret.results[2] = [name |-> <<"B">>,
                         greeting |-> <<"h", "e", "l", "l", "o", " ", "B", "!">>]
    /\ Len(cmds) = 2

\* the three failure modes of the external process and the outcome in which each
\* tool meets them: the executable is not found, it exits non-zero, it exits zero
\* with output that is no JSON
FailureModes == {"not_installed", "crashed", "unparsable"}
OutcomeOfMode(tool, mode) ==
    CASE mode = "not_installed" ->
            IF tool = "langchain" THEN "no_such_file" ELSE "not_found"
      [] mode = "crashed" -> "exit_nonzero"
      [] mode = "unparsable" -> "garbage"

\* the error string of the call in args, had its command ended in the outcome o
ErrorUnder(o) ==
    IF op = "langchain"
    THEN sayhello_langchain(args.name, args.language, o, 0).ret.error
    ELSE sayhello_tool(args.bag, o, 0).ret.error

\* C11: a call whose command is not found, exits non-zero or prints output that
\* is no JSON returns success = False and raises nothing, and the error strings
\* of the three failure modes are pairwise different.
C11_FailureModesDistinct ==
    (op \in {"sayhello_tool", "langchain"} /\ cmds # <<>>)
        => \A m \in FailureModes :
             args.outcome = OutcomeOfMode(op, m)
                => /\ exc = "none"
                   /\ ret.success = FALSE
                   /\ \A m2 \in FailureModes \ {m} :
                        ErrorUnder(OutcomeOfMode(op, m2)) # ret.error

\* C12: when the command of the tool of src/sayhello.py exceeds its timeout, the
\* tool returns a failure envelope and raises nothing, and the envelope's error
\* is a message of the timeout: it is not the error of the same call with a
\* crashed or a not-installed command.
C12_TimeoutMessage ==
    (op = "langchain" /\ cmds # <<>> /\ args.outcome = "timeout")
        => /\ exc = "none"
           /\ ret.success = FALSE
           /\ ret.error # ErrorUnder(OutcomeOfMode(op, "crashed"))
           /\ ret.error # ErrorUnder(OutcomeOfMode(op, "not_installed"))

\* the value of the first name alias, in the order of AliasOrder, that the bag holds
FirstAliasValue(bag) ==
    bag[AliasOrder[CHOOSE i \in 1..Len(AliasOrder) :
            /\ AliasOrder[i] \in DOMAIN bag
            /\ \A j \in 1..(i - 1) : AliasOrder[j] \notin DOMAIN bag]]

HoldsAlias(bag) == \E i \in 1..Len(AliasOrder) : AliasOrder[i] \in DOMAIN bag

\* C13: the alias scan runs when the canonical name is absent and also when it
\* is present but empty: a bag {name: "", A: "X"} with A a name alias resolves to
\* the name "X" and does not fail with the empty-name error.
C13_ScanOnEmptyName ==
    (/\ op = "sayhello_tool"
     /\ HoldsAlias(args.bag)
     /\ "name" \in DOMAIN args.bag => args.bag["name"] = StrVal(<<>>))
        => /\ locals.name = FirstAliasValue(args.bag)
           /\ (exc = "none" /\ ~ BlankName(FirstAliasValue(args.bag)))
                => ret # [success |-> FALSE,
                          error |-> <<"U+53C2U+6570 'name' U+4E0DU+80FDU+4E3AU+7A7A">>]

\* the bag without the language alias, and the call in args made with that bag
WithoutLanguageAlias(bag) == [k \in DOMAIN bag \ {"greeting_language"} |-> bag[k]]
CallWith(bag) == sayhello_tool(bag, args.outcome, args.elapsed)

\* C14: greeting_language is taken as the language only when the caller gave no
\* canonical language; a call that gives both language and greeting_language
\* resolves and uses the canonical language, as the call without the alias does.
C14_CanonicalLanguageWins ==
    (op = "sayhello_tool" /\ "greeting_language" \in DOMAIN args.bag)
        => /\ "language" \notin DOMAIN args.bag
                => LET adopted == CallWith(Put(WithoutLanguageAlias(args.bag), "language",
                                               args.bag["greeting_language"]))
                   IN  locals.language = adopted.locals.language /\ cmds = adopted.cmds
           /\ (/\ "language" \in DOMAIN args.bag
               /\ IsStr(args.bag["language"])
               /\ IsStr(args.bag["greeting_language"]))
                => LET canonical == CallWith(WithoutLanguageAlias(args.bag))
                   IN  locals.language = canonical.locals.language /\ cmds = canonical.cmds

\* C15: in one tool call the command is started at most once: the step after a
\* command that ended, in a timeout, a non-zero exit, unparsable output or any
\* other outcome, starts nothing and returns the envelope; an envelope is
\* returned once and no step follows the return.
C15_StartedAtMostOnce ==
    [][/\ Len(cmds') <= 1
       /\ op = "ran" => (cmds' = cmds /\ op' = "returned")
       /\ op # "returned"
       /\ (ret' # ret \/ exc' # exc) => (op' = "returned" /\ ret = NoRet /\ exc = "none")]_vars

C15_Witness ==
    /\ op = "returned"
    /\ "outcome" \in DOMAIN args
    /\ args.tool = "langchain"
    /\ args.outcome = "timeout"
    /\ Len(cmds) = 1
    /\ ret.success = FALSE

====
